---------------------------- MODULE Spec2Model ----------------------------
(***************************************************************************)
(* A model of terminal-ai: the CLI entry point (cli/command_cli.py), the   *)
(* translation agent with its response parser and safety gate              *)
(* (agents/translate_command_agent.py), the OpenAI chat client             *)
(* (io/language_model_client.py), the prompt loader (io/prompt_loader.py)  *)
(* and the command runner (io/command_runner.py).                          *)
(*                                                                         *)
(* Text is modelled character by character: a Python str is a sequence of  *)
(* one-character strings, so that strip(), lower(), str.find(), the        *)
(* regular expressions of the safety gate and json.loads are computed as   *)
(* the code computes them.                                                 *)
(***************************************************************************)
EXTENDS Integers, Sequences, FiniteSets, TLC

(***************************************************************************)
(* Characters and the str methods the code uses.                           *)
(***************************************************************************)
LowerLetters ==
  <<"a","b","c","d","e","f","g","h","i","j","k","l","m",
    "n","o","p","q","r","s","t","u","v","w","x","y","z">>

UpperLetters ==
  <<"A","B","C","D","E","F","G","H","I","J","K","L","M",
    "N","O","P","Q","R","S","T","U","V","W","X","Y","Z">>

DigitChars == <<"0","1","2","3","4","5","6","7","8","9">>

Range(f) == { f[i] : i \in DOMAIN f }

\* str.isspace() of one character, which is also the regular expression
\* class \s (the ASCII part of both).  Form feed has no TLA+ literal and is
\* written by name, as is backspace below.
IsSpace(c) == c \in {" ", "\t", "\n", "\r", "<FF>"}

\* A character of the regular expression class \w.
IsWordChar(c) ==
  c \in Range(LowerLetters) \cup Range(UpperLetters) \cup Range(DigitChars) \cup {"_"}

\* str.lower() of one character.
LowerChar(c) ==
  IF c \in Range(UpperLetters)
  THEN LowerLetters[CHOOSE i \in DOMAIN UpperLetters : UpperLetters[i] = c]
  ELSE c

\* str.lower()
Lower(s) == [i \in DOMAIN s |-> LowerChar(s[i])]

\* str.strip(): the text without its leading and trailing whitespace.
Strip(s) ==
  LET keep == { i \in DOMAIN s : ~IsSpace(s[i]) }
  IN  IF keep = {} THEN << >>
      ELSE LET first == CHOOSE i \in keep : \A j \in keep : i <= j
               last  == CHOOSE i \in keep : \A j \in (i + 1)..Len(s) : IsSpace(s[j])
           IN  SubSeq(s, first, last)

\* str.find(c): the index (from 1) of the first c, 0 when there is none
\* (Python: from 0, and -1).
Find(s, c) ==
  IF \E i \in DOMAIN s : s[i] = c
  THEN CHOOSE i \in DOMAIN s : s[i] = c /\ \A j \in 1..(i - 1) : s[j] # c
  ELSE 0

\* str.rfind(c): the index (from 1) of the last c, 0 when there is none.
RFind(s, c) ==
  IF \E i \in DOMAIN s : s[i] = c
  THEN CHOOSE i \in DOMAIN s : s[i] = c /\ \A j \in (i + 1)..Len(s) : s[j] # c
  ELSE 0

RECURSIVE Concat(_)
\* "".join(parts), halving the parts.
Concat(parts) ==
  IF parts = << >> THEN << >>
  ELSE IF Len(parts) = 1 THEN parts[1]
  ELSE LET mid == Len(parts) \div 2
       IN  Concat(SubSeq(parts, 1, mid)) \o Concat(SubSeq(parts, mid + 1, Len(parts)))

\* sep.join(parts)
JoinWith(sep, parts) ==
  IF parts = << >> THEN << >>
  ELSE Concat([i \in 1..(2 * Len(parts) - 1) |->
                 IF i % 2 = 1 THEN parts[(i + 1) \div 2] ELSE sep])

(***************************************************************************)
(* Regular expressions, as far as _DESTRUCTIVE_PATTERNS uses them: literal *)
(* characters, \s+ and \b, and the IGNORECASE flag.  A pattern is a        *)
(* sequence of atoms; re.search looks for a match at any position.         *)
(***************************************************************************)
Lit(s) == [i \in DOMAIN s |-> [a |-> "lit", c |-> s[i]]]

Spaces1 == << [a |-> "ws", c |-> ""] >>      \* \s+

WordEnd == << [a |-> "wb", c |-> ""] >>      \* \b

\* \b at the gap before s[i]: exactly one side is a word character.
AtWordBoundary(s, i) ==
  LET before == (i - 1 \in DOMAIN s) /\ IsWordChar(s[i - 1])
      after  == (i \in DOMAIN s) /\ IsWordChar(s[i])
  IN  before # after

CharMatches(pc, c, icase) ==
  IF icase THEN LowerChar(pc) = LowerChar(c) ELSE pc = c

RECURSIVE MatchHere(_, _, _, _, _)
\* Whether atoms[pi..] match s starting at index si.
MatchHere(atoms, icase, s, pi, si) ==
  IF pi > Len(atoms) THEN TRUE
  ELSE LET at == atoms[pi]
       IN  CASE at.a = "lit" ->
                  /\ si \in DOMAIN s
                  /\ CharMatches(at.c, s[si], icase)
                  /\ MatchHere(atoms, icase, s, pi + 1, si + 1)
             [] at.a = "ws" ->
                  \E k \in 1..(Len(s) - si + 1) :
                     /\ \A j \in si..(si + k - 1) : IsSpace(s[j])
                     /\ MatchHere(atoms, icase, s, pi + 1, si + k)
             [] at.a = "wb" ->
                  /\ AtWordBoundary(s, si)
                  /\ MatchHere(atoms, icase, s, pi + 1, si)

\* pattern.search(s) is not None
Search(p, s) ==
  \E i \in 1..(Len(s) + 1) : MatchHere(p.atoms, p.icase, s, 1, i)

DESTRUCTIVE_PATTERNS ==
  << [atoms |-> Lit(<<"r","m">>) \o Spaces1 \o Lit(<<"-","r","f">>) \o WordEnd,
      icase |-> FALSE],
     [atoms |-> Lit(<<"r","m">>) \o Spaces1 \o Lit(<<"-","f","r">>) \o WordEnd,
      icase |-> FALSE],
     [atoms |-> Lit(<<"m","k","f","s">>) \o WordEnd,
      icase |-> FALSE],
     [atoms |-> Lit(<<"d","d">>) \o Spaces1 \o Lit(<<"i","f","=">>),
      icase |-> TRUE],
     [atoms |-> Lit(<<"s","h","u","t","d","o","w","n">>) \o WordEnd,
      icase |-> FALSE],
     [atoms |-> Lit(<<"r","e","b","o","o","t">>) \o WordEnd,
      icase |-> FALSE] >>

\* any(pattern.search(command) for pattern in _DESTRUCTIVE_PATTERNS)
MatchesDestructive(command) ==
  \E n \in DOMAIN DESTRUCTIVE_PATTERNS : Search(DESTRUCTIVE_PATTERNS[n], command)

(***************************************************************************)
(* json.loads on text.  A decoded value is a record: k is its kind, s a    *)
(* string's characters (or a float's Python text), n an integer's value,   *)
(* items the members of an object or of an array, in the order of the      *)
(* text (an array's members have the empty key).  The grammar is Python's  *)
(* json module's: whitespace is " \t\n\r", a string may not hold a control *)
(* character, NaN, Infinity and -Infinity are numbers.  \uXXXX escapes,    *)
(* decimal fractions and exponents are not modelled: no text of the model  *)
(* holds one.                                                              *)
(***************************************************************************)
JStr(s) == [k |-> "str", s |-> s, n |-> 0, items |-> << >>]

JInt(n) == [k |-> "int", s |-> << >>, n |-> n, items |-> << >>]

JFloat(s) == [k |-> "float", s |-> s, n |-> 0, items |-> << >>]

JTrue == [k |-> "true", s |-> << >>, n |-> 0, items |-> << >>]

JFalse == [k |-> "false", s |-> << >>, n |-> 0, items |-> << >>]

JNull == [k |-> "null", s |-> << >>, n |-> 0, items |-> << >>]

JObj(items) == [k |-> "obj", s |-> << >>, n |-> 0, items |-> items]

JArr(items) == [k |-> "arr", s |-> << >>, n |-> 0, items |-> items]

Member(key, val) == [key |-> key, val |-> val]

\* The result of a decoding step: the value and the index after it.
Decoded(val, next) == [ok |-> TRUE, val |-> val, next |-> next]

\* json.JSONDecodeError
DecodeError == [ok |-> FALSE, val |-> JNull, next |-> 0]

CharAt(t, i) == IF i \in DOMAIN t THEN t[i] ELSE ""

HasPrefixAt(t, i, w) ==
  /\ i + Len(w) - 1 <= Len(t)
  /\ SubSeq(t, i, i + Len(w) - 1) = w

\* json.decoder.WHITESPACE
IsJsonSpace(c) == c \in {" ", "\t", "\n", "\r"}

RECURSIVE SkipWs(_, _)
\* The index of the first character at or after i that is not whitespace.
SkipWs(t, i) == IF i \in DOMAIN t /\ IsJsonSpace(t[i]) THEN SkipWs(t, i + 1) ELSE i

\* The character a backslash escape stands for ("" when it is no escape).
Unescape(e) ==
  CASE e = "\"" -> "\""
    [] e = "\\" -> "\\"
    [] e = "/"  -> "/"
    [] e = "b"  -> "<BS>"
    [] e = "f"  -> "<FF>"
    [] e = "n"  -> "\n"
    [] e = "r"  -> "\r"
    [] e = "t"  -> "\t"
    [] OTHER    -> ""

IsControl(c) == c \in {"\t", "\n", "\r", "<BS>", "<FF>"}

\* The index of the first character at or after i that ends a run of plain
\* string characters (a quote, a backslash or a control character), or
\* Len(t) + 1 when the text ends first.
RunEnd(t, i) ==
  CHOOSE j \in i..(Len(t) + 1) :
     /\ (j = Len(t) + 1 \/ t[j] \in {"\"", "\\"} \/ IsControl(t[j]))
     /\ \A m \in i..(j - 1) : ~(t[m] \in {"\"", "\\"} \/ IsControl(t[m]))

RECURSIVE ScanString(_, _, _)
\* json.decoder.scanstring: i is the index after the opening quote (or
\* after the part already scanned into acc).  It takes a run of plain
\* characters, then the terminator: a quote ends the string, a backslash
\* escapes the next character, anything else is an error.
ScanString(t, i, acc) ==
  LET j     == RunEnd(t, i)
      chunk == acc \o SubSeq(t, i, j - 1)
  IN  IF j \notin DOMAIN t THEN DecodeError
      ELSE CASE t[j] = "\"" -> Decoded(JStr(chunk), j + 1)
             [] t[j] = "\\" ->
                  IF Unescape(CharAt(t, j + 1)) = "" THEN DecodeError
                  ELSE ScanString(t, j + 2, Append(chunk, Unescape(t[j + 1])))
             [] OTHER -> DecodeError

DigitValue(c) == (CHOOSE i \in DOMAIN DigitChars : DigitChars[i] = c) - 1

IsDigit(c) == c \in Range(DigitChars)

RECURSIVE ScanDigits(_, _, _)
\* The value of the digits from i on, after the digits worth acc, and the
\* index after them.
ScanDigits(t, i, acc) ==
  IF IsDigit(CharAt(t, i))
  THEN ScanDigits(t, i + 1, 10 * acc + DigitValue(t[i]))
  ELSE [n |-> acc, next |-> i]

\* NUMBER_RE.match: -?(0|[1-9][0-9]*)
ScanNumber(t, i) ==
  LET neg == CharAt(t, i) = "-"
      j   == IF neg THEN i + 1 ELSE i
  IN  IF ~IsDigit(CharAt(t, j)) THEN DecodeError
      ELSE IF t[j] = "0" THEN Decoded(JInt(0), j + 1)
      ELSE LET d == ScanDigits(t, j, 0)
           IN  Decoded(JInt(IF neg THEN 0 - d.n ELSE d.n), d.next)

RECURSIVE ScanOnce(_, _), ScanMembers(_, _, _), ScanElements(_, _, _)
\* json.scanner.py_make_scanner._scan_once: the value that starts at i.
ScanOnce(t, i) ==
  LET c == CharAt(t, i)
  IN  CASE c = "\"" -> ScanString(t, i + 1, << >>)
        [] c = "{" ->
             LET j == SkipWs(t, i + 1)
             IN  IF CharAt(t, j) = "}" THEN Decoded(JObj(<< >>), j + 1)
                 ELSE IF CharAt(t, j) = "\"" THEN ScanMembers(t, j, << >>)
                 ELSE DecodeError
        [] c = "[" ->
             LET j == SkipWs(t, i + 1)
             IN  IF CharAt(t, j) = "]" THEN Decoded(JArr(<< >>), j + 1)
                 ELSE ScanElements(t, j, << >>)
        [] c = "n" /\ HasPrefixAt(t, i, <<"n","u","l","l">>) ->
             Decoded(JNull, i + 4)
        [] c = "t" /\ HasPrefixAt(t, i, <<"t","r","u","e">>) ->
             Decoded(JTrue, i + 4)
        [] c = "f" /\ HasPrefixAt(t, i, <<"f","a","l","s","e">>) ->
             Decoded(JFalse, i + 5)
        [] IsDigit(c) \/ (c = "-" /\ IsDigit(CharAt(t, i + 1))) ->
             ScanNumber(t, i)
        [] c = "N" /\ HasPrefixAt(t, i, <<"N","a","N">>) ->
             Decoded(JFloat(<<"n","a","n">>), i + 3)
        [] c = "I" /\ HasPrefixAt(t, i, <<"I","n","f","i","n","i","t","y">>) ->
             Decoded(JFloat(<<"i","n","f">>), i + 8)
        [] c = "-" /\ HasPrefixAt(t, i, <<"-","I","n","f","i","n","i","t","y">>) ->
             Decoded(JFloat(<<"-","i","n","f">>), i + 9)
        [] OTHER -> DecodeError

\* json.decoder.JSONObject's loop: i is the index of a key's opening quote.
ScanMembers(t, i, acc) ==
  LET key == ScanString(t, i + 1, << >>)
  IN  IF ~key.ok THEN DecodeError
      ELSE LET colon == SkipWs(t, key.next)
           IN  IF CharAt(t, colon) # ":" THEN DecodeError
               ELSE LET val == ScanOnce(t, SkipWs(t, colon + 1))
                    IN  IF ~val.ok THEN DecodeError
                        ELSE LET all == Append(acc, Member(key.val.s, val.val))
                                 sep == SkipWs(t, val.next)
                             IN  CASE CharAt(t, sep) = "}" ->
                                        Decoded(JObj(all), sep + 1)
                                   [] CharAt(t, sep) = "," ->
                                        LET nxt == SkipWs(t, sep + 1)
                                        IN  IF CharAt(t, nxt) = "\""
                                            THEN ScanMembers(t, nxt, all)
                                            ELSE DecodeError
                                   [] OTHER -> DecodeError

\* json.decoder.JSONArray's loop: i is the index where a value starts.
ScanElements(t, i, acc) ==
  LET val == ScanOnce(t, i)
  IN  IF ~val.ok THEN DecodeError
      ELSE LET all == Append(acc, Member(<< >>, val.val))
               sep == SkipWs(t, val.next)
           IN  CASE CharAt(t, sep) = "]" -> Decoded(JArr(all), sep + 1)
                 [] CharAt(t, sep) = "," -> ScanElements(t, SkipWs(t, sep + 1), all)
                 [] OTHER -> DecodeError

\* json.JSONDecoder().raw_decode on the text after its leading whitespace:
\* one value, and whatever follows it is left alone.  C6 tells it from
\* json.loads.
JsonLoadsPrefix(t) == ScanOnce(t, SkipWs(t, 1))

\* json.loads(t): one value, whitespace around it, and nothing else.
JsonLoads(t) ==
  LET val == ScanOnce(t, SkipWs(t, 1))
  IN  IF val.ok /\ SkipWs(t, val.next) = Len(t) + 1 THEN val ELSE DecodeError

(***************************************************************************)
(* Python's str(), repr() and bool() of a decoded value.                   *)
(***************************************************************************)
RECURSIVE NatToChars(_)
NatToChars(n) ==
  IF n < 10 THEN << DigitChars[n + 1] >>
  ELSE Append(NatToChars(n \div 10), DigitChars[(n % 10) + 1])

IntToChars(n) == IF n < 0 THEN <<"-">> \o NatToChars(0 - n) ELSE NatToChars(n)

\* repr() of a str: single quotes, unless the text holds one and no double
\* quote; backslash, the quote in use and control characters are escaped.
StrRepr(s) ==
  LET q == IF (\E i \in DOMAIN s : s[i] = "'") /\ ~(\E i \in DOMAIN s : s[i] = "\"")
           THEN "\"" ELSE "'"
      Esc(c) == CASE c = "\\" -> <<"\\","\\">>
                  [] c = q    -> <<"\\", q>>
                  [] c = "\n" -> <<"\\","n">>
                  [] c = "\r" -> <<"\\","r">>
                  [] c = "\t" -> <<"\\","t">>
                  [] c = "<BS>" -> <<"\\","x","0","8">>
                  [] c = "<FF>" -> <<"\\","x","0","c">>
                  [] OTHER    -> << c >>
  IN  << q >> \o Concat([i \in DOMAIN s |-> Esc(s[i])]) \o << q >>

\* The members of a dict built from the decoded pairs: one per key, at the
\* place of the key's first pair, with the value of its last.
DictItems(items) ==
  LET firsts == { i \in DOMAIN items : \A j \in 1..(i - 1) : items[j].key # items[i].key }
      LastOf(key) == CHOOSE i \in DOMAIN items :
                        /\ items[i].key = key
                        /\ \A j \in (i + 1)..Len(items) : items[j].key # key
      Nth(n) == CHOOSE i \in firsts : Cardinality({ j \in firsts : j < i }) = n - 1
  IN  [n \in 1..Cardinality(firsts) |->
         Member(items[Nth(n)].key, items[LastOf(items[Nth(n)].key)].val)]

RECURSIVE PyRepr(_)
PyRepr(v) ==
  CASE v.k = "str"   -> StrRepr(v.s)
    [] v.k = "int"   -> IntToChars(v.n)
    [] v.k = "float" -> v.s
    [] v.k = "true"  -> <<"T","r","u","e">>
    [] v.k = "false" -> <<"F","a","l","s","e">>
    [] v.k = "null"  -> <<"N","o","n","e">>
    [] v.k = "obj"   ->
         LET d == DictItems(v.items)
         IN  <<"{">> \o JoinWith(<<",", " ">>,
                          [i \in DOMAIN d |->
                             StrRepr(d[i].key) \o <<":", " ">> \o PyRepr(d[i].val)])
                    \o <<"}">>
    [] v.k = "arr"   ->
         <<"[">> \o JoinWith(<<",", " ">>,
                      [i \in DOMAIN v.items |-> PyRepr(v.items[i].val)])
                \o <<"]">>

\* str(v)
PyStr(v) == IF v.k = "str" THEN v.s ELSE PyRepr(v)

\* bool(v)
PyBool(v) ==
  CASE v.k = "str"   -> v.s # << >>
    [] v.k = "int"   -> v.n # 0
    [] v.k = "float" -> TRUE
    [] v.k = "true"  -> TRUE
    [] v.k = "false" -> FALSE
    [] v.k = "null"  -> FALSE
    [] OTHER         -> v.items # << >>

\* payload.get(key, default)
DictGet(payload, key, default) ==
  IF \E i \in DOMAIN payload.items : payload.items[i].key = key
  THEN payload.items[CHOOSE i \in DOMAIN payload.items :
                        /\ payload.items[i].key = key
                        /\ \A j \in (i + 1)..Len(payload.items) :
                              payload.items[j].key # key].val
  ELSE default

(***************************************************************************)
(* agents/translate_command_agent.py: the response parser and the gate.    *)
(***************************************************************************)
K_command == <<"c","o","m","m","a","n","d">>

K_explanation == <<"e","x","p","l","a","n","a","t","i","o","n">>

K_follow_up == <<"f","o","l","l","o","w","_","u","p">>

K_requires_confirmation ==
  <<"r","e","q","u","i","r","e","s","_","c","o","n","f","i","r","m","a","t","i","o","n">>

\* _extract_json_object: the object decoded from the first "{" to the last
\* "}", or ValueError (ok = FALSE).
ExtractJsonObject(response_text) ==
  LET start == Find(response_text, "{")
      end   == RFind(response_text, "}")
  IN  IF start = 0 \/ end = 0 \/ end <= start THEN DecodeError
      ELSE JsonLoads(SubSeq(response_text, start, end))

CommandSuggestion(command, explanation, requires_confirmation, follow_up) ==
  [command |-> command, explanation |-> explanation,
   requires_confirmation |-> requires_confirmation, follow_up |-> follow_up]

NoSuggestion == CommandSuggestion(<< >>, << >>, FALSE, << >>)

\* What a call gives: a value, or the exception it raises ("" when none).
Returned(value) == [raised |-> "", value |-> value]

Raised(exception) == [raised |-> exception, value |-> NoSuggestion]

\* A parser that lets the empty suggestion through; C5 tells it from the
\* parser.
IsEmptySuggestionNever(command, follow_up) == FALSE

\* The emptiness test of _parse_response: `not command and not follow_up`.
IsEmptySuggestion(command, follow_up) == command = << >> /\ follow_up = << >>

\* TranslateCommandAgent._parse_response
ParseResponse(response_text) ==
  LET payload == ExtractJsonObject(response_text)
  IN  IF ~payload.ok THEN Raised("CommandParsingError")
      ELSE LET command     == Strip(PyStr(DictGet(payload.val, K_command, JStr(<< >>))))
               explanation == Strip(PyStr(DictGet(payload.val, K_explanation, JStr(<< >>))))
               follow_up   == Strip(PyStr(DictGet(payload.val, K_follow_up, JStr(<< >>))))
               requires_confirmation ==
                 PyBool(DictGet(payload.val, K_requires_confirmation, JFalse))
           IN  IF IsEmptySuggestion(command, follow_up)
               THEN Raised("CommandParsingError")
               ELSE Returned(CommandSuggestion(command, explanation,
                                               requires_confirmation, follow_up))

\* A with_confirmation that leaves follow_up out of the copy; C11 tells it
\* from with_confirmation.
WithConfirmationOnly(suggestion, required) ==
  [command |-> suggestion.command, explanation |-> suggestion.explanation,
   requires_confirmation |-> required, follow_up |-> << >>]

\* CommandSuggestion.with_confirmation
WithConfirmation(suggestion, required) ==
  CommandSuggestion(suggestion.command, suggestion.explanation, required,
                    suggestion.follow_up)

\* A gate that never forces the flag; C1 tells it from the gate.
EnforceConfirmationSkipped(suggestion) == suggestion

\* TranslateCommandAgent._enforce_confirmation
EnforceConfirmation(suggestion) ==
  IF MatchesDestructive(suggestion.command)
  THEN WithConfirmation(suggestion, TRUE)
  ELSE suggestion

(***************************************************************************)
(* io/language_model_client.py: OpenAIChatClient.complete, as a function   *)
(* of what urlopen does with the one request the call sends.               *)
(***************************************************************************)
\* A call that gives text: the text, or the exception raised ("" when none).
TextReturned(text) == [raised |-> "", text |-> text]

TextRaised(exception) == [raised |-> exception, text |-> << >>]

Got(val) == [raised |-> "", val |-> val]

NotGot(exception) == [raised |-> exception, val |-> JNull]

\* v[key] for a str key: only a dict can be subscripted by it.
GetItemStr(v, key) ==
  IF v.k # "obj" THEN NotGot("TypeError")
  ELSE IF \E i \in DOMAIN v.items : v.items[i].key = key
       THEN Got(DictGet(v, key, JNull))
       ELSE NotGot("KeyError")

\* v[0]: a list's or a str's first element; a dict decoded from JSON has
\* no key 0.
GetItemZero(v) ==
  CASE v.k = "arr" -> IF v.items = << >> THEN NotGot("IndexError")
                      ELSE Got(v.items[1].val)
    [] v.k = "str" -> IF v.s = << >> THEN NotGot("IndexError")
                      ELSE Got(JStr(<< v.s[1] >>))
    [] v.k = "obj" -> NotGot("KeyError")
    [] OTHER       -> NotGot("TypeError")

K_choices == <<"c","h","o","i","c","e","s">>

K_message == <<"m","e","s","s","a","g","e">>

K_content == <<"c","o","n","t","e","n","t">>

\* data["choices"][0]["message"]["content"]
MessageContent(data) ==
  LET choices == GetItemStr(data, K_choices)
  IN  IF choices.raised # "" THEN choices
      ELSE LET first == GetItemZero(choices.val)
           IN  IF first.raised # "" THEN first
               ELSE LET message == GetItemStr(first.val, K_message)
                    IN  IF message.raised # "" THEN message
                        ELSE GetItemStr(message.val, K_content)

\* A complete that returns str() of a content that is no str; C9 tells it
\* from complete.
CompleteFromDataCoerced(data) ==
  LET raw_message == MessageContent(data)
  IN  CASE raw_message.raised \in {"KeyError", "IndexError"} -> TextRaised("RuntimeError")
        [] raw_message.raised # "" -> TextRaised(raw_message.raised)
        [] OTHER -> TextReturned(Strip(PyStr(raw_message.val)))

\* What complete does with the decoded response body.
CompleteFromData(data) ==
  LET raw_message == MessageContent(data)
  IN  CASE raw_message.raised \in {"KeyError", "IndexError"} -> TextRaised("RuntimeError")
        [] raw_message.raised # "" -> TextRaised(raw_message.raised)
        [] raw_message.val.k # "str" -> TextRaised("RuntimeError")
        [] OTHER -> TextReturned(Strip(raw_message.val.s))

\* OpenAIChatClient.complete.  reply is what urlopen and response.read()
\* do: kind "HTTPError" or "URLError" (raised, and caught by complete),
\* "TimeoutError" (raised while reading, and not caught) or "body", with
\* the bytes read.
Complete(reply) ==
  CASE reply.kind \in {"HTTPError", "URLError"} -> TextRaised("RuntimeError")
    [] reply.kind = "TimeoutError" -> TextRaised("TimeoutError")
    [] OTHER ->
         LET data == JsonLoads(reply.body)
         IN  IF ~data.ok THEN TextRaised("JSONDecodeError")
             ELSE CompleteFromData(data.val)

(***************************************************************************)
(* io/command_runner.py                                                    *)
(***************************************************************************)
CommandExecutionResult(command, returncode, stdout_text, stderr_text) ==
  [command |-> command, returncode |-> returncode,
   stdout |-> stdout_text, stderr |-> stderr_text]

NoResult == CommandExecutionResult(<< >>, 0, << >>, << >>)

\* execute with check=True: a non-zero exit status raises.  C8 tells it from
\* execute.
ExecuteChecked(dry_run, command, cwd, proc) ==
  IF dry_run
  THEN [raised |-> "", spawned |-> FALSE,
        result |-> [command |-> command, returncode |-> 0,
                    stdout |-> << >>, stderr |-> << >>]]
  ELSE IF proc.kind = "OSError"
  THEN [raised |-> "OSError", spawned |-> TRUE,
        result |-> [command |-> << >>, returncode |-> 0,
                    stdout |-> << >>, stderr |-> << >>]]
  ELSE IF proc.returncode # 0
  THEN [raised |-> "CalledProcessError", spawned |-> TRUE,
        result |-> [command |-> << >>, returncode |-> 0,
                    stdout |-> << >>, stderr |-> << >>]]
  ELSE [raised |-> "", spawned |-> TRUE,
        result |-> [command |-> command, returncode |-> proc.returncode,
                    stdout |-> proc.stdout, stderr |-> proc.stderr]]

\* CommandRunner.execute.  proc is what subprocess.run does with the
\* command in the directory cwd when it is called: kind "OSError" (the
\* shell or the directory is missing) or "exited", with the exit status and
\* the captured output.  spawned tells whether subprocess.run was called.
Execute(dry_run, command, cwd, proc) ==
  IF dry_run
  THEN [raised |-> "", spawned |-> FALSE,
        result |-> CommandExecutionResult(command, 0, << >>, << >>)]
  ELSE IF proc.kind = "OSError"
  THEN [raised |-> "OSError", spawned |-> TRUE, result |-> NoResult]
  ELSE [raised |-> "", spawned |-> TRUE,
        result |-> CommandExecutionResult(command, proc.returncode,
                                          proc.stdout, proc.stderr)]

(***************************************************************************)
(* io/prompt_loader.py and the fallback of main.                           *)
(***************************************************************************)
DEFAULT_PROMPT == "command_synthesis.txt"

\* load_prompt(name), given the state of the prompts directory: file is
\* "missing" (no directory, or no such file in it) or the kind of template
\* the file holds.
LoadPrompt(name, file) ==
  IF file = "missing" THEN [raised |-> "FileNotFoundError", template |-> ""]
  ELSE [raised |-> "", template |-> file]

\* str.format(shell=..., cwd=...) of a template: a template naming only
\* {shell} and {cwd} renders; one with another field or a stray brace
\* raises (KeyError, IndexError or ValueError).
RenderPrompt(template) ==
  IF template \in {"embedded", "file_renders"} THEN "" ELSE "KeyError"

(***************************************************************************)
(* The inputs of the model: what the user types, what the files and the    *)
(* environment hold, what the API answers and what the model writes.       *)
(***************************************************************************)
T_ls == <<"l","s">>

T_list_files == <<"L","i","s","t"," ","f","i","l","e","s">>

T_rm_rf_tmp == <<"r","m"," ","-","r","f"," ","/","t","m","p","/","x">>

T_remove_temp ==
  <<"R","e","m","o","v","e"," ","t","e","m","p"," ","d","i","r">>

T_which_directory ==
  <<"W","h","i","c","h"," ","d","i","r","e","c","t","o","r","y","?">>

T_not_json == <<"n","o","t"," ","j","s","o","n"," ","a","t"," ","a","l","l">>

T_true == <<"t","r","u","e">>

T_false == <<"f","a","l","s","e">>

T_null == <<"n","u","l","l">>

T_y == <<"y">>

T_yes == <<"y","e","s">>

\* The longest run of whitespace between the two words of a generated
\* command.
MaxWs == 2

\* The most whitespace characters the API puts on each side of a message
\* text, in the calls of complete alone.
MaxPad == 1

\* All texts of at most n characters of the set chars.
TextsUpTo(chars, n) == UNION { [1..k -> chars] : k \in 0..n }

\* json.dumps of one character of a str.
EscapeChar(c) ==
  CASE c = "\"" -> <<"\\","\"">>
    [] c = "\\" -> <<"\\","\\">>
    [] c = "\n" -> <<"\\","n">>
    [] c = "\r" -> <<"\\","r">>
    [] c = "\t" -> <<"\\","t">>
    [] c = "<BS>" -> <<"\\","b">>
    [] c = "<FF>" -> <<"\\","f">>
    [] OTHER    -> << c >>

\* json.dumps of a str
JsonDumpsStr(s) == <<"\"">> \o Concat([i \in DOMAIN s |-> EscapeChar(s[i])]) \o <<"\"">>

\* json.dumps of a dict, given each key with the JSON text of its value; a
\* key whose text is empty is left out.
ObjectText(members) ==
  LET present == SelectSeq(members, LAMBDA m : m.text # << >>)
  IN  <<"{">> \o JoinWith(<<",", " ">>,
                   [i \in DOMAIN present |->
                      JsonDumpsStr(present[i].key) \o <<":", " ">> \o present[i].text])
             \o <<"}">>

\* The JSON object the prompt asks the model for, from the JSON text of
\* each field (empty: the field is absent).
SuggestionText(command, explanation, requires_confirmation, follow_up) ==
  ObjectText(<< [key |-> K_command, text |-> command],
                [key |-> K_explanation, text |-> explanation],
                [key |-> K_requires_confirmation, text |-> requires_confirmation],
                [key |-> K_follow_up, text |-> follow_up] >>)

\* A reply of a model client.  kind: "text" (body is the text returned),
\* "body" (body is the HTTP response body) or the exception raised.  shape
\* says how the body was written; content is the message text an API
\* response carries; command and follow_up are the JSON texts of these
\* fields when the body is a suggestion object and nothing else.
Reply(kind, body, shape, content, command, follow_up) ==
  [kind |-> kind, body |-> body, shape |-> shape, content |-> content,
   command |-> command, follow_up |-> follow_up]

NoReply == Reply("", << >>, "", << >>, << >>, << >>)

\* Commands for the safety gate: a keyword, alone or after and before
\* other text.  A two-word keyword is written with every run of up to MaxWs
\* blanks and tabs between its words.
TwoWordKeywords ==
  { << <<"r","m">>, <<"-","r","f">> >>,
    << <<"r","m">>, <<"-","f","r">> >>,
    << <<"r","m">>, <<"-","r">> >>,
    << <<"R","M">>, <<"-","R","F">> >>,
    << <<"d","d">>, <<"i","f","=">> >>,
    << <<"D","D">>, <<"I","F","=">> >>,
    << <<"D","d">>, <<"i","F","=">> >> }

OneWordKeywords ==
  { <<"m","k","f","s">>,
    <<"m","k","f">>,
    <<"s","h","u","t","d","o","w","n">>,
    <<"r","e","b","o","o","t">>,
    <<"R","e","b","o","o","t">>,
    <<"l","s">> }

GateKeywords ==
  OneWordKeywords \cup
  { w[1] \o ws \o w[2] : w \in TwoWordKeywords, ws \in TextsUpTo({" ", "\t"}, MaxWs) }

GatePrefixes == { <<>>, <<"x">>, <<"s","u","d","o"," ">> }

GateSuffixes == { <<>>, <<" ","/","x">>, <<"v">>, <<".","e","x","t","4">>, <<"_">> }

GateCommands ==
  { pre \o kw \o post : pre \in GatePrefixes, kw \in GateKeywords, post \in GateSuffixes }

\* JSON texts of the command field.
CommandTexts ==
  { <<>>,
    <<"\"","\"">>,
    <<"\""," ","\"">>,
    <<"n","u","l","l">>,
    <<"\"","l","s","\"">>,
    <<"\""," ","l","s","\\","n","\"">>,
    <<"0">>,
    <<"{","}">>,
    <<"[","]">>,
    <<"f","a","l","s","e">>,
    <<"\"","e","c","h","o"," ","{","\"">>,
    <<"\"","e","c","h","o"," ","}","\"">>,
    <<"\"","r","m"," ","-","r","f"," ","/","t","m","p","/","x","\"">> }

\* JSON texts of the explanation field.
ExplanationTexts ==
  { <<>>,
    <<"\"","L","i","s","t"," ","f","i","l","e","s","\"">>,
    <<"n","u","l","l">> }

\* JSON texts of the requires_confirmation field.
ConfirmationTexts ==
  { <<>>,
    <<"t","r","u","e">>,
    <<"f","a","l","s","e">>,
    <<"\"","f","a","l","s","e","\"">>,
    <<"\"","\"">>,
    <<"0">>,
    <<"1">>,
    <<"n","u","l","l">>,
    <<"[","]">>,
    <<"{","\"","a","\"",":"," ","1","}">> }

\* JSON texts of the follow_up field.
FollowUpTexts ==
  { <<>>,
    <<"\"","\"">>,
    <<"\""," "," ","\"">>,
    <<"\"","W","h","i","c","h"," ","d","i","r","e","c","t","o","r","y","?","\"">>,
    <<"n","u","l","l">>,
    <<"0">> }

\* The JSON texts of a field that make it empty: absent, or a str of
\* whitespace only.
EmptyFieldTexts == { <<>>, <<"\"","\"">>, <<"\""," ","\"">>, <<"\""," "," ","\"">> }

\* Suggestion objects with every combination of field values.
ObjectReplies ==
  { Reply("text", SuggestionText(c, e, r, f), "object", << >>, c, f) :
      c \in CommandTexts, e \in ExplanationTexts,
      r \in ConfirmationTexts, f \in FollowUpTexts }

\* Suggestion objects for the commands of the gate.
GateReplies ==
  { Reply("text", SuggestionText(JsonDumpsStr(c), << >>, r, << >>), "object",
          << >>, JsonDumpsStr(c), << >>) :
      c \in GateCommands, r \in { << >>, T_true, T_false } }

\* What a model writes before and after the object: prose, a code fence,
\* braces.
Wrappers ==
  { << <<>>, <<>> >>,
    << <<"S","u","r","e",":"," ">>, <<>> >>,
    << <<"~","~","~","j","s","o","n","\n">>, <<"\n","~","~","~">> >>,
    << <<>>, <<" ","D","o","n","e",".">> >>,
    << <<"{">>, <<>> >>,
    << <<>>, <<"}">> >>,
    << <<"}">>, <<>> >>,
    << <<>>, <<"{">> >>,
    << <<"}"," ">>, <<"{"," ">> >>,
    << <<"U","s","e"," ","{","x","}",":"," ">>, <<>> >>,
    << <<>>, <<" ","(","s","e","e"," ","{","x","}",")">> >>,
    << <<"{","}">>, <<>> >>,
    << <<"\"">>, <<>> >> }

\* The objects that are wrapped.
WrappedObjects ==
  { <<"{","\"","c","o","m","m","a","n","d","\"",":"," ","\"","l","s","\"",","," ","\"","e","x","p","l","a","n","a","t","i","o","n","\"",":"," ","\"","L","i","s","t"," ","f","i","l","e","s","\"",","," ","\"","r","e","q","u","i","r","e","s","_","c","o","n","f","i","r","m","a","t","i","o","n","\"",":"," ","f","a","l","s","e",","," ","\"","f","o","l","l","o","w","_","u","p","\"",":"," ","\"","\"","}">>,
    <<"{","\"","c","o","m","m","a","n","d","\"",":"," ","\"","e","c","h","o"," ","{","\"","}">>,
    <<"{","\"","c","o","m","m","a","n","d","\"",":"," ","\"","e","c","h","o"," ","}","\"","}">>,
    <<"{","\"","c","o","m","m","a","n","d","\"",":"," ","\"","e","c","h","o"," ","{","}","\"","}">>,
    <<"{","\"","c","o","m","m","a","n","d","\"",":"," ","\"","\"",","," ","\"","f","o","l","l","o","w","_","u","p","\"",":"," ","\"","W","h","i","c","h"," ","d","i","r","e","c","t","o","r","y","?","\"","}">>,
    <<"{","\"","c","o","m","m","a","n","d","\"",":"," ","\"","r","m"," ","-","r","f"," ","/","t","m","p","/","x","\"",","," ","\"","r","e","q","u","i","r","e","s","_","c","o","n","f","i","r","m","a","t","i","o","n","\"",":"," ","f","a","l","s","e","}">>,
    <<"{","\"","c","o","m","m","a","n","d","\"",":"," ","\"","l","s","\"">>,
    <<"\"","c","o","m","m","a","n","d","\"",":"," ","\"","l","s","\"","}">>,
    <<"{","c","o","m","m","a","n","d",":"," ","l","s","}">>,
    <<"{","\"","c","o","m","m","a","n","d","\"",":"," ","\"","l","s","\"",",","}">>,
    <<"{","'","c","o","m","m","a","n","d","'",":"," ","'","l","s","'","}">>,
    <<"{","\"","c","o","m","m","a","n","d","\"",":"," ","\"","l","s","\"","}"," ","{","\"","c","o","m","m","a","n","d","\"",":"," ","\"","r","e","b","o","o","t","\"","}">>,
    <<"{","\"","c","o","m","m","a","n","d","\"",":"," ","\"","a","\"",","," ","\"","c","o","m","m","a","n","d","\"",":"," ","\"","b","\"","}">>,
    <<"{","\"","a","\"",":"," ","{","\"","c","o","m","m","a","n","d","\"",":"," ","\"","l","s","\"","}","}">>,
    <<"{"," ","\"","c","o","m","m","a","n","d","\""," ",":"," ","\"","l","s","\""," ",","," ","\"","f","o","l","l","o","w","_","u","p","\""," ",":"," ","{"," ","}"," ","}">>,
    <<"{","\"","c","o","m","m","a","n","d","\"",":"," ","[","\"","l","s","\"",","," ","\"","-","l","\"","]","}">> }

\* Texts that hold no suggestion object.
JunkTexts ==
  { <<>>,
    <<"n","o","t"," ","j","s","o","n"," ","a","t"," ","a","l","l">>,
    <<"{">>,
    <<"}">>,
    <<"}","{">>,
    <<"{","}">>,
    <<"{"," ","}">>,
    <<"}"," ","{">>,
    <<"[","]">>,
    <<"\"","c","o","m","m","a","n","d","\"">>,
    <<"{","{","}">>,
    <<"{","}","}">>,
    <<"{","\"","}","\"","}">>,
    <<"{","\"","{","\"",":"," ","\"","}","\"","}">> }

WrappedReplies ==
  { Reply("text", w[1] \o o \o w[2], "wrapped", << >>, << >>, << >>) :
      w \in Wrappers, o \in WrappedObjects }
  \cup { Reply("text", j, "junk", << >>, << >>, << >>) : j \in JunkTexts }

\* What a stand-in for the model client gives to suggest: any of the texts
\* above, or an exception.
StubReplies ==
  ObjectReplies \cup GateReplies \cup WrappedReplies
  \cup { Reply("RuntimeError", << >>, "", << >>, << >>, << >>) }

\* An API response body around a message text: the smallest one, and one
\* with the other fields of the API and a second choice.
EnvelopeMinimal(content) ==
  ObjectText(<< [key |-> K_choices,
                 text |-> <<"[">> \o ObjectText(<< [key |-> K_message,
                            text |-> ObjectText(<< [key |-> K_content,
                                       text |-> JsonDumpsStr(content)] >>)] >>)
                          \o <<"]">>] >>)

EnvelopeFull(content) ==
  <<"{","\"","i","d","\"",":"," ","\"","c","-","1","\"",","," ","\"","c","h","o","i","c","e","s","\"",":"," ","[","{","\"","i","n","d","e","x","\"",":"," ","0",","," ","\"","m","e","s","s","a","g","e","\"",":"," ","{","\"","r","o","l","e","\"",":"," ","\"","a","s","s","i","s","t","a","n","t","\"",","," ","\"","c","o","n","t","e","n","t","\"",":"," ">>
  \o JsonDumpsStr(content) \o
  <<"}",","," ","\"","f","i","n","i","s","h","_","r","e","a","s","o","n","\"",":"," ","\"","s","t","o","p","\"","}",","," ","{","\"","i","n","d","e","x","\"",":"," ","1",","," ","\"","m","e","s","s","a","g","e","\"",":"," ","{","\"","c","o","n","t","e","n","t","\"",":"," ","\"","s","e","c","o","n","d","\"","}","}","]",","," ","\"","u","s","a","g","e","\"",":"," ","{","\"","t","o","t","a","l","_","t","o","k","e","n","s","\"",":"," ","9","}","}">>

\* Response bodies that carry no message text.  shape: "not_json" (the body
\* is no JSON), "missing" (an expected field or element is absent),
\* "wrong_type" (a value on the way to the content is no dict or list) or
\* "not_text" (the content is no str).
BadBodies ==
  { << "not_json", <<"n","o","t"," ","j","s","o","n">> >>,
    << "not_json", <<>> >>,
    << "missing", <<"{","\"","e","r","r","o","r","\"",":"," ","\"","b","a","d","\"","}">> >>,
    << "missing", <<"{","\"","c","h","o","i","c","e","s","\"",":"," ","[","]","}">> >>,
    << "missing", <<"{","\"","c","h","o","i","c","e","s","\"",":"," ","[","{","}","]","}">> >>,
    << "missing", <<"{","\"","c","h","o","i","c","e","s","\"",":"," ","[","{","\"","m","e","s","s","a","g","e","\"",":"," ","{","}","}","]","}">> >>,
    << "missing", <<"{","\"","c","h","o","i","c","e","s","\"",":"," ","{","}","}">> >>,
    << "missing", <<"{","\"","c","h","o","i","c","e","s","\"",":"," ","{","\"","0","\"",":"," ","{","\"","m","e","s","s","a","g","e","\"",":"," ","{","\"","c","o","n","t","e","n","t","\"",":"," ","\"","x","\"","}","}","}","}">> >>,
    << "missing", <<"{","\"","c","h","o","i","c","e","s","\"",":"," ","\"","\"","}">> >>,
    << "wrong_type", <<"[","]">> >>,
    << "wrong_type", <<"n","u","l","l">> >>,
    << "wrong_type", <<"\"","c","h","o","i","c","e","s","\"">> >>,
    << "wrong_type", <<"{","\"","c","h","o","i","c","e","s","\"",":"," ","\"","a","b","c","\"","}">> >>,
    << "wrong_type", <<"{","\"","c","h","o","i","c","e","s","\"",":"," ","n","u","l","l","}">> >>,
    << "wrong_type", <<"{","\"","c","h","o","i","c","e","s","\"",":"," ","[","n","u","l","l","]","}">> >>,
    << "wrong_type", <<"{","\"","c","h","o","i","c","e","s","\"",":"," ","[","[","]","]","}">> >>,
    << "wrong_type", <<"{","\"","c","h","o","i","c","e","s","\"",":"," ","[","{","\"","m","e","s","s","a","g","e","\"",":"," ","\"","h","i","\"","}","]","}">> >>,
    << "wrong_type", <<"{","\"","c","h","o","i","c","e","s","\"",":"," ","[","{","\"","m","e","s","s","a","g","e","\"",":"," ","[","\"","c","o","n","t","e","n","t","\"","]","}","]","}">> >>,
    << "wrong_type", <<"{","\"","c","h","o","i","c","e","s","\"",":"," ","1","}">> >>,
    << "not_text", <<"{","\"","c","h","o","i","c","e","s","\"",":"," ","[","{","\"","m","e","s","s","a","g","e","\"",":"," ","{","\"","c","o","n","t","e","n","t","\"",":"," ","n","u","l","l","}","}","]","}">> >>,
    << "not_text", <<"{","\"","c","h","o","i","c","e","s","\"",":"," ","[","{","\"","m","e","s","s","a","g","e","\"",":"," ","{","\"","c","o","n","t","e","n","t","\"",":"," ","1","}","}","]","}">> >>,
    << "not_text", <<"{","\"","c","h","o","i","c","e","s","\"",":"," ","[","{","\"","m","e","s","s","a","g","e","\"",":"," ","{","\"","c","o","n","t","e","n","t","\"",":"," ","[","\"","l","s","\"","]","}","}","]","}">> >>,
    << "not_text", <<"{","\"","c","h","o","i","c","e","s","\"",":"," ","[","{","\"","m","e","s","s","a","g","e","\"",":"," ","{","\"","c","o","n","t","e","n","t","\"",":"," ","{","\"","c","o","m","m","a","n","d","\"",":"," ","\"","l","s","\"","}","}","}","]","}">> >>,
    << "not_text", <<"{","\"","c","h","o","i","c","e","s","\"",":"," ","[","{","\"","m","e","s","s","a","g","e","\"",":"," ","{","\"","c","o","n","t","e","n","t","\"",":"," ","t","r","u","e","}","}","]","}">> >> }

\* The API's replies to the one request of complete: a failure of the
\* transport, a body without a message text, or a body whose message text
\* is one of contents with up to pad blanks or newlines on each side.
ApiReplies(contents, pad) ==
  { Reply(k, << >>, "", << >>, << >>, << >>) : k \in {"HTTPError", "URLError", "TimeoutError"} }
  \cup { Reply("body", b[2], b[1], << >>, << >>, << >>) : b \in BadBodies }
  \cup { Reply("body", EnvelopeMinimal(l \o c \o r), "good", l \o c \o r, << >>, << >>) :
           c \in contents, l \in TextsUpTo({" ", "\n"}, pad), r \in TextsUpTo({" ", "\n"}, pad) }
  \cup { Reply("body", EnvelopeFull(c), "good", c, << >>, << >>) : c \in contents }

\* The message texts of the runs of main: the end-to-end scenarios of the
\* specification, and suggestions that need or do not need confirmation,
\* with and without a follow-up.
MainContents ==
  { SuggestionText(JsonDumpsStr(T_ls), JsonDumpsStr(T_list_files), T_false, JsonDumpsStr(<< >>)),
    SuggestionText(JsonDumpsStr(T_rm_rf_tmp), JsonDumpsStr(T_remove_temp), T_false, JsonDumpsStr(<< >>)),
    SuggestionText(JsonDumpsStr(<< >>), JsonDumpsStr(<< >>), T_false, JsonDumpsStr(T_which_directory)),
    T_not_json,
    SuggestionText(JsonDumpsStr(T_ls), << >>, T_true, << >>),
    SuggestionText(JsonDumpsStr(T_ls), << >>, T_false, JsonDumpsStr(T_which_directory)),
    SuggestionText(JsonDumpsStr(T_rm_rf_tmp), << >>, T_true, JsonDumpsStr(T_which_directory)),
    SuggestionText(T_null, << >>, T_null, T_null),
    SuggestionText(JsonDumpsStr(<< " " >>), << >>, << >>, JsonDumpsStr(<< >>)),
    <<"S","u","r","e",":"," ">> \o SuggestionText(JsonDumpsStr(<<"r","e","b","o","o","t">>), << >>, << >>, << >>),
    SuggestionText(JsonDumpsStr(<<"e","c","h","o"," ","}">>), << >>, << >>, << >>) \o <<"}">>,
    SuggestionText(JsonDumpsStr(<<" ">> \o T_rm_rf_tmp \o <<"\n">>), << >>, T_false, << >>) }

\* The message texts of the calls of complete alone.
ClientContents ==
  MainContents \cup JunkTexts \cup WrappedObjects
  \cup { <<"h","e","l","l","o">>, <<"a","\"","b","\\","c">>, <<"a","\t","b","\n","c">>,
         <<"\t","x","<FF>">>, <<"<BS>">> }

\* What input() gives: a line without its newline, or EOFError.
InputLine(text) == [eof |-> FALSE, text |-> text]

EndOfInput == [eof |-> TRUE, text |-> << >>]

\* What the user may type when asked for the task.
TaskLines ==
  { EndOfInput, InputLine(<< >>), InputLine(<<" ", "\t">>),
    InputLine(<<" ","l","i","s","t"," ","f","i","l","e","s"," ">>) }

\* What the user may type when asked to confirm.
AnswerLines ==
  { EndOfInput, InputLine(<< >>), InputLine(T_y), InputLine(T_yes),
    InputLine(<<"Y">>), InputLine(<<" ","Y","E","S"," ">>), InputLine(<<"n">>),
    InputLine(<<"n","o">>), InputLine(<<"y","e","s"," ","p","l","e","a","s","e">>),
    InputLine(<<"y","e">>) }

\* " ".join(args.instruction): no words, a blank word, words.
InstructionArgs ==
  { << >>, <<" ">>, <<"l","i","s","t"," ","f","i","l","e","s">> }

\* What the prompts directory holds under the name asked for.
PromptFiles == { "missing", "file_renders", "file_with_other_field" }

\* --api-key (empty: not given) and OPENAI_API_KEY (empty: unset, or set to
\* the empty string).
KeyTexts == { << >>, <<"s","k","-","t","e","s","t">> }

\* What subprocess.run does with a command: the exit status (negative: the
\* signal that ended the shell) and the captured output, or OSError.
ExitStatuses == { 0, 1, 2, 3, 10, 127, 0 - 9 }

Exited(returncode, out, err) ==
  [kind |-> "exited", returncode |-> returncode, stdout |-> out, stderr |-> err]

\* subprocess.run was not called.
NoProcess == [kind |-> "", returncode |-> 0, stdout |-> << >>, stderr |-> << >>]

Processes ==
  { Exited(rc, << >>, << >>) : rc \in ExitStatuses }
  \cup { Exited(rc, <<"o","u","t","\n">>, <<"e","r","r","\n">>) : rc \in ExitStatuses }
  \cup { [kind |-> "OSError", returncode |-> 0, stdout |-> << >>, stderr |-> << >>] }

WorkingDirectories == { <<"/","t","m","p">>, <<"/">>, <<"/","n","o","n","e">> }

(***************************************************************************)
(* The state.                                                              *)
(***************************************************************************)
VARIABLES
  pc,               \* where the run is
  args,             \* argparse's namespace
  instruction,      \* main's instruction
  prompt_template,  \* main's prompt_template
  api_key,          \* main's api_key
  request,          \* the CommandRequest
  reply,            \* what the model client's transport gave
  raw_response,     \* suggest's raw_response
  parsed,           \* what _parse_response returned
  suggestion,       \* suggest's, then main's, suggestion
  error,            \* the exception being raised ("" when none)
  should_execute,   \* main's should_execute
  runner,           \* the CommandRunner
  executed,         \* what execute was called with, and what the process did
  result,           \* the CommandExecutionResult
  stdout,           \* what was printed to sys.stdout
  stderr,           \* what was printed to sys.stderr
  reads,            \* the calls of input(), with what each gave
  exit_code,        \* what main returned (when pc = "returned")
  calls             \* how many times each step was taken

vars ==
  << pc, args, instruction, prompt_template, api_key, request, reply,
     raw_response, parsed, suggestion, error, should_execute, runner, executed,
     result, stdout, stderr, reads, exit_code, calls >>

Args ==
  [instruction : InstructionArgs, prompt : {DEFAULT_PROMPT, "custom.txt"},
   api_key : KeyTexts, cwd : {<<"/","t","m","p">>},
   dry_run : BOOLEAN, accept : BOOLEAN, no_exec : BOOLEAN,
   allow_destructive : BOOLEAN]

\* CommandRequest (the fields that decide anything)
CommandRequest(text, allow_destructive) ==
  [instruction |-> text, allow_destructive |-> allow_destructive]

NoCalls ==
  [render |-> 0, complete |-> 0, request |-> 0, parse |-> 0, gate |-> 0,
   confirm |-> 0, execute |-> 0, spawn |-> 0]

Count(step) == [calls EXCEPT ![step] = @ + 1]

Printed(tag, text) == [tag |-> tag, text |-> text]

\* The state before anything ran, at position p.
Blank(p) ==
  /\ pc = p
  /\ instruction = << >>
  /\ prompt_template = ""
  /\ api_key = << >>
  /\ request = CommandRequest(<< >>, FALSE)
  /\ reply = NoReply
  /\ raw_response = << >>
  /\ parsed = NoSuggestion
  /\ suggestion = NoSuggestion
  /\ error = ""
  /\ should_execute = FALSE
  /\ runner = [dry_run |-> FALSE]
  /\ executed = [command |-> << >>, cwd |-> << >>, proc |-> NoProcess]
  /\ result = NoResult
  /\ stdout = << >>
  /\ stderr = << >>
  /\ reads = << >>
  /\ exit_code = 0
  /\ calls = NoCalls

\* main is called with any arguments.
Init == args \in Args /\ Blank("instruction")

(***************************************************************************)
(* cli/command_cli.py: main, step by step.                                 *)
(***************************************************************************)
\* `return code` of main
Return(code) == pc' = "returned" /\ exit_code' = code

\* main, lines 55-63: the instruction from the arguments, else from input().
MainInstruction ==
  /\ pc = "instruction"
  /\ \E line \in TaskLines :
       LET given == Strip(args.instruction)
           asked == given = << >>
           text  == IF ~asked THEN given
                    ELSE IF line.eof THEN << >> ELSE Strip(line.text)
       IN  /\ instruction' = text
           /\ reads' = IF asked
                       THEN Append(reads, [prompt |-> "Describe the task> ", line |-> line])
                       ELSE reads
           /\ IF text = << >>
              THEN /\ stderr' = Append(stderr, Printed("No instruction provided.", << >>))
                   /\ Return(1)
              ELSE /\ pc' = "load_prompt"
                   /\ UNCHANGED << stderr, exit_code >>
  /\ UNCHANGED << args, prompt_template, api_key, request, reply, raw_response,
                  parsed, suggestion, error, should_execute, runner, executed,
                  result, stdout, calls >>

\* A main without the embedded template; C4 tells it from main.
FallsBackNever(prompt) == FALSE

\* Whether main falls back to _EMBEDDED_PROMPT when the template is missing.
FallsBack(prompt) == prompt = DEFAULT_PROMPT

\* main, lines 65-71: the prompt template, or the embedded one.
MainLoadPrompt ==
  /\ pc = "load_prompt"
  /\ \E file \in PromptFiles :
       LET loaded == LoadPrompt(args.prompt, file)
       IN  IF loaded.raised = ""
           THEN /\ prompt_template' = loaded.template
                /\ pc' = "api_key"
                /\ UNCHANGED << stderr, exit_code >>
           ELSE IF ~FallsBack(args.prompt)
           THEN /\ stderr' = Append(stderr, Printed("Prompt template not found", << >>))
                /\ Return(1)
                /\ UNCHANGED prompt_template
           ELSE /\ prompt_template' = "embedded"
                /\ pc' = "api_key"
                /\ UNCHANGED << stderr, exit_code >>
  /\ UNCHANGED << args, instruction, api_key, request, reply, raw_response,
                  parsed, suggestion, error, should_execute, runner, executed,
                  result, stdout, reads, calls >>

\* args.api_key or os.getenv("OPENAI_API_KEY")
ChooseKey(given, env) == IF given # << >> THEN given ELSE env

\* main, lines 73-76: the API key.
MainApiKey ==
  /\ pc = "api_key"
  /\ \E env \in KeyTexts :
       LET key == ChooseKey(args.api_key, env)
       IN  /\ api_key' = key
           /\ IF key = << >>
              THEN /\ stderr' = Append(stderr, Printed("Missing OpenAI API key.", << >>))
                   /\ Return(1)
              ELSE /\ pc' = "build"
                   /\ UNCHANGED << stderr, exit_code >>
  /\ UNCHANGED << args, instruction, prompt_template, request, reply,
                  raw_response, parsed, suggestion, error, should_execute, runner,
                  executed, result, stdout, reads, calls >>

\* main, lines 78-88: the client, the agent and the request; then suggest
\* is called.
MainBuildRequest ==
  /\ pc = "build"
  /\ request' = CommandRequest(instruction, args.allow_destructive)
  /\ pc' = "render"
  /\ UNCHANGED << args, instruction, prompt_template, api_key, reply,
                  raw_response, parsed, suggestion, error, should_execute, runner,
                  executed, result, stdout, stderr, reads, exit_code, calls >>

(***************************************************************************)
(* TranslateCommandAgent.suggest, step by step.                            *)
(***************************************************************************)
\* suggest, lines 68-71: the system prompt.
SuggestRender ==
  /\ pc = "render"
  /\ calls' = Count("render")
  /\ IF RenderPrompt(prompt_template) = ""
     THEN pc' = "complete" /\ UNCHANGED error
     ELSE pc' = "suggest_raised" /\ error' = RenderPrompt(prompt_template)
  /\ UNCHANGED << args, instruction, prompt_template, api_key, request, reply,
                  raw_response, parsed, suggestion, should_execute, runner,
                  executed, result, stdout, stderr, reads, exit_code >>

\* A suggest that calls complete again when it raised; C10 tells it from
\* suggest.
AfterCompleteRaisedRetry == "complete"

\* Where suggest goes when complete raised.
AfterCompleteRaised == "suggest_raised"

\* suggest, lines 72-76, with the text or the exception complete gave.
CompleteReturns(got, n_requests) ==
  /\ calls' = [calls EXCEPT !.complete = @ + 1, !.request = @ + n_requests]
  /\ IF got.raised = ""
     THEN /\ raw_response' = got.text
          /\ pc' = "parse"
          /\ UNCHANGED error
     ELSE /\ error' = got.raised
          /\ pc' = AfterCompleteRaised
          /\ UNCHANGED raw_response
  /\ UNCHANGED << args, instruction, prompt_template, api_key, request, parsed,
                  suggestion, should_execute, runner, executed, result, stdout,
                  stderr, reads, exit_code >>

\* suggest calls OpenAIChatClient.complete, which sends one request.
OpenAIComplete ==
  /\ pc = "complete"
  /\ \E r \in ApiReplies(MainContents, 0) :
       /\ reply' = r
       /\ CompleteReturns(Complete(r), 1)

\* suggest calls the complete of a stand-in client.
StubComplete ==
  /\ pc = "complete"
  /\ \E r \in StubReplies :
       /\ reply' = r
       /\ CompleteReturns(IF r.kind = "text" THEN TextReturned(r.body)
                          ELSE TextRaised(r.kind), 0)

\* suggest, line 77: the response is parsed.
SuggestParse ==
  /\ pc = "parse"
  /\ calls' = Count("parse")
  /\ LET got == ParseResponse(raw_response)
     IN  IF got.raised = ""
         THEN /\ parsed' = got.value
              /\ suggestion' = got.value
              /\ pc' = "enforce"
              /\ UNCHANGED error
         ELSE /\ error' = got.raised
              /\ pc' = "suggest_raised"
              /\ UNCHANGED << parsed, suggestion >>
  /\ UNCHANGED << args, instruction, prompt_template, api_key, request, reply,
                  raw_response, should_execute, runner, executed, result, stdout,
                  stderr, reads, exit_code >>

\* suggest, line 78: whether the gate is applied.
GateApplies(s, req) == s.command # << >> /\ ~req.allow_destructive

\* suggest, lines 78-80: the gate, and the return.
SuggestEnforce ==
  /\ pc = "enforce"
  /\ IF GateApplies(suggestion, request)
     THEN /\ suggestion' = EnforceConfirmation(suggestion)
          /\ calls' = Count("gate")
     ELSE UNCHANGED << suggestion, calls >>
  /\ pc' = "suggested"
  /\ UNCHANGED << args, instruction, prompt_template, api_key, request, reply,
                  raw_response, parsed, error, should_execute, runner, executed,
                  result, stdout, stderr, reads, exit_code >>

(***************************************************************************)
(* main, after suggest.                                                    *)
(***************************************************************************)
\* The two exit codes exchanged; C3 tells it from main's.
ErrorExitCodeSwapped(exception) == IF exception = "CommandParsingError" THEN 3 ELSE 2

\* The exit code of main for an exception of suggest (lines 92-97).
ErrorExitCode(exception) == IF exception = "CommandParsingError" THEN 2 ELSE 3

\* main, lines 92-97: suggest raised.
MainSuggestFailed ==
  /\ pc = "suggest_raised"
  /\ stderr' = Append(stderr,
                 Printed(IF error = "CommandParsingError"
                         THEN "Failed to parse model response: "
                         ELSE "Model request failed: ", << >>))
  /\ Return(ErrorExitCode(error))
  /\ UNCHANGED << args, instruction, prompt_template, api_key, request, reply,
                  raw_response, parsed, suggestion, error, should_execute, runner,
                  executed, result, stdout, reads, calls >>

\* A test that takes any suggestion with a follow-up for a question; C7
\* tells it from the test of main.
IsFollowUpAnyCommand(s) == s.follow_up # << >>

\* main, line 99: the suggestion is a follow-up question.
IsFollowUp(s) == s.follow_up # << >> /\ s.command = << >>

\* main, lines 99-108: the follow-up, or the command and its explanation.
MainShow ==
  /\ pc = "suggested"
  /\ IF IsFollowUp(suggestion)
     THEN /\ stdout' = Append(stdout, Printed("Follow-up needed: ", suggestion.follow_up))
          /\ Return(10)
     ELSE /\ stdout' = stdout \o << Printed("Command: ", suggestion.command) >>
                         \o IF suggestion.explanation # << >>
                            THEN << Printed("Why: ", suggestion.explanation) >>
                            ELSE << >>
          /\ IF args.no_exec THEN Return(0)
             ELSE pc' = "confirm" /\ UNCHANGED exit_code
  /\ UNCHANGED << args, instruction, prompt_template, api_key, request, reply,
                  raw_response, parsed, suggestion, error, should_execute, runner,
                  executed, result, stderr, reads, calls >>

\* main, line 110: whether the command runs without asking.
RunsUnasked(accept, requires_confirmation) == accept \/ ~requires_confirmation

\* main, lines 113-116: the answer to "Execute command? [y/N]: ".
Answer(line) == IF line.eof THEN << >> ELSE Lower(Strip(line.text))

\* A test of the answer that also takes the empty answer; C2 tells it from
\* the test of main.
IsYesOrEmpty(answer) == answer \in { << >>, <<"y">>, <<"y","e","s">> }

\* main, line 116
IsYes(answer) == answer \in { T_y, T_yes }

\* main, lines 110-120: the confirmation.
MainConfirm ==
  /\ pc = "confirm"
  /\ \E line \in AnswerLines :
       LET asked == ~RunsUnasked(args.accept, suggestion.requires_confirmation)
           go    == IF asked THEN IsYes(Answer(line)) ELSE TRUE
       IN  /\ should_execute' = go
           /\ reads' = IF asked
                       THEN Append(reads, [prompt |-> "Execute command? [y/N]: ", line |-> line])
                       ELSE reads
           /\ calls' = IF asked THEN Count("confirm") ELSE calls
           /\ IF go
              THEN pc' = "execute" /\ UNCHANGED << stdout, exit_code >>
              ELSE stdout' = Append(stdout, Printed("Aborted.", << >>)) /\ Return(0)
  /\ UNCHANGED << args, instruction, prompt_template, api_key, request, reply,
                  raw_response, parsed, suggestion, error, runner, executed,
                  result, stderr >>

\* runner.execute(command, cwd=cwd) with what subprocess.run does.
RunnerCall(dry_run, command, cwd) ==
  \E proc \in Processes :
     LET done == Execute(dry_run, command, cwd, proc)
     IN  /\ runner' = [dry_run |-> dry_run]
         /\ executed' = [command |-> command, cwd |-> cwd,
                          proc |-> IF done.spawned THEN proc ELSE NoProcess]
         /\ calls' = [calls EXCEPT !.execute = @ + 1,
                                   !.spawn = @ + (IF done.spawned THEN 1 ELSE 0)]
         /\ IF done.raised = ""
            THEN result' = done.result /\ UNCHANGED error
            ELSE error' = done.raised /\ UNCHANGED result

\* main, lines 122-123: the command is run.
MainExecute ==
  /\ pc = "execute"
  /\ RunnerCall(args.dry_run, suggestion.command, args.cwd)
  /\ pc' = IF error' = "" THEN "report" ELSE "raised"
  /\ UNCHANGED << args, instruction, prompt_template, api_key, request, reply,
                  raw_response, parsed, suggestion, should_execute, stdout,
                  stderr, reads, exit_code >>

\* main, lines 125-128: the output, and the command's exit status.
MainReport ==
  /\ pc = "report"
  /\ stdout' = IF result.stdout # << >>
               THEN Append(stdout, Printed("", result.stdout)) ELSE stdout
  /\ stderr' = IF result.stderr # << >>
               THEN Append(stderr, Printed("", result.stderr)) ELSE stderr
  /\ Return(result.returncode)
  /\ UNCHANGED << args, instruction, prompt_template, api_key, request, reply,
                  raw_response, parsed, suggestion, error, should_execute, runner,
                  executed, result, reads, calls >>

Next ==
  \/ MainInstruction
  \/ MainLoadPrompt
  \/ MainApiKey
  \/ MainBuildRequest
  \/ SuggestRender
  \/ OpenAIComplete
  \/ SuggestParse
  \/ SuggestEnforce
  \/ MainSuggestFailed
  \/ MainShow
  \/ MainConfirm
  \/ MainExecute
  \/ MainReport

\* A run of main.
Spec == Init /\ [][Next]_vars

(***************************************************************************)
(* suggest alone, called with any request on an agent with a stand-in      *)
(* client, as the tests call it.                                           *)
(***************************************************************************)
InitSuggest ==
  /\ args \in { a \in Args : a.instruction = << >> /\ a.prompt = DEFAULT_PROMPT
                             /\ a.api_key = << >> /\ ~a.dry_run /\ ~a.accept
                             /\ ~a.no_exec /\ ~a.allow_destructive }
  /\ pc = "render"
  /\ instruction = << >>
  /\ prompt_template \in { "embedded", "file_renders", "file_with_other_field" }
  /\ api_key = << >>
  /\ request \in { CommandRequest(<<"l","i","s","t"," ","f","i","l","e","s">>, d) : d \in BOOLEAN }
  /\ reply = NoReply
  /\ raw_response = << >>
  /\ parsed = NoSuggestion
  /\ suggestion = NoSuggestion
  /\ error = ""
  /\ should_execute = FALSE
  /\ runner = [dry_run |-> FALSE]
  /\ executed = [command |-> << >>, cwd |-> << >>, proc |-> NoProcess]
  /\ result = NoResult
  /\ stdout = << >>
  /\ stderr = << >>
  /\ reads = << >>
  /\ exit_code = 0
  /\ calls = NoCalls

NextSuggest == SuggestRender \/ StubComplete \/ SuggestParse \/ SuggestEnforce

SpecSuggest == InitSuggest /\ [][NextSuggest]_vars

(***************************************************************************)
(* OpenAIChatClient.complete alone.                                        *)
(***************************************************************************)
InitClient ==
  /\ args \in { a \in Args : a.instruction = << >> /\ a.prompt = DEFAULT_PROMPT
                             /\ a.api_key = << >> /\ ~a.dry_run /\ ~a.accept
                             /\ ~a.no_exec /\ ~a.allow_destructive }
  /\ Blank("client")

\* complete is called once, and returns or raises.
ClientComplete ==
  /\ pc = "client"
  /\ \E r \in ApiReplies(ClientContents, MaxPad) :
       LET got == Complete(r)
       IN  /\ reply' = r
           /\ calls' = [calls EXCEPT !.complete = @ + 1, !.request = @ + 1]
           /\ raw_response' = got.text
           /\ error' = got.raised
           /\ pc' = IF got.raised = "" THEN "client_returned" ELSE "client_raised"
  /\ UNCHANGED << args, instruction, prompt_template, api_key, request, parsed,
                  suggestion, should_execute, runner, executed, result, stdout,
                  stderr, reads, exit_code >>

NextClient == ClientComplete

SpecClient == InitClient /\ [][NextClient]_vars

(***************************************************************************)
(* CommandRunner.execute alone, on a runner with either configuration.     *)
(***************************************************************************)
InitRunner ==
  /\ args \in { a \in Args : a.instruction = << >> /\ a.prompt = DEFAULT_PROMPT
                             /\ a.api_key = << >> /\ ~a.accept
                             /\ ~a.no_exec /\ ~a.allow_destructive }
  /\ Blank("runner")

\* execute is called once with any command and directory.
RunnerExecute ==
  /\ pc = "runner"
  /\ \E command \in GateCommands \cup { << >> }, cwd \in WorkingDirectories :
       RunnerCall(args.dry_run, command, cwd)
  /\ pc' = IF error' = "" THEN "runner_returned" ELSE "runner_raised"
  /\ UNCHANGED << args, instruction, prompt_template, api_key, request, reply,
                  raw_response, parsed, suggestion, should_execute, stdout,
                  stderr, reads, exit_code >>

NextRunner == RunnerExecute

SpecRunner == InitRunner /\ [][NextRunner]_vars

(***************************************************************************)
(* The properties.                                                         *)
(***************************************************************************)
\* suggest returned a suggestion.
SuggestReturned == pc = "suggested"

\* C1: when suggest returns, requires_confirmation is true whenever
\* destructive commands are not allowed and the parsed command matches one
\* of the six destructive patterns; when the command matches none of them
\* the flag is the parsed one; and a parsed true is never made false.
C1_GateForcesConfirmation ==
  SuggestReturned =>
    /\ (~request.allow_destructive /\ MatchesDestructive(parsed.command))
          => suggestion.requires_confirmation
    /\ ~MatchesDestructive(parsed.command)
          => suggestion.requires_confirmation = parsed.requires_confirmation
    /\ parsed.requires_confirmation => suggestion.requires_confirmation

\* suggest returned a command written "Dd  iF=" that the model said needs
\* no confirmation, and the gate forced the flag.
C1_Witness ==
  /\ SuggestReturned
  /\ ~request.allow_destructive
  /\ parsed.command = <<"s","u","d","o"," ","D","d"," "," ","i","F","=","v">>
  /\ MatchesDestructive(parsed.command)
  /\ ~parsed.requires_confirmation
  /\ suggestion.requires_confirmation

\* The parser returned (suggest is at or after the gate).
ParserReturned == calls.parse = 1 /\ error = ""

\* C5: a suggestion the parser returned has a non-empty command or a
\* non-empty follow_up, and so has the one suggest returns; an object whose
\* command and follow_up are both absent or blank makes the parser raise
\* CommandParsingError, and no suggestion is returned.
C5_NeverEmptySuggestion ==
  /\ ParserReturned
        => /\ parsed.command # << >> \/ parsed.follow_up # << >>
           /\ suggestion.command # << >> \/ suggestion.follow_up # << >>
  /\ ( /\ calls.parse = 1
       /\ reply.shape = "object"
       /\ reply.command \in EmptyFieldTexts
       /\ reply.follow_up \in EmptyFieldTexts )
        => /\ error = "CommandParsingError"
           /\ pc = "suggest_raised"
           /\ parsed = NoSuggestion
           /\ suggestion = NoSuggestion

\* The parser raised on an object with a blank command, no follow_up, an
\* explanation and a true flag.
C5_Witness ==
  /\ calls.parse = 1
  /\ reply.shape = "object"
  /\ reply.command = <<"\""," ","\"">>
  /\ reply.follow_up = << >>
  /\ raw_response # << >>
  /\ Find(raw_response, "{") = 1
  /\ error = "CommandParsingError"

\* The text has no "{" / "}" pair: no "{", no "}", or the last "}" is not
\* after the first "{".
NoBracePair(text) ==
  ~\E i, j \in DOMAIN text : i < j /\ text[i] = "{" /\ text[j] = "}"

\* How many more "{" than "}" the first n characters of the text hold.
BraceDepth(text, n) ==
  Cardinality({ i \in 1..n : text[i] = "{" }) - Cardinality({ i \in 1..n : text[i] = "}" })

\* The braces of the text are unbalanced: a "}" closes nothing, or a "{" is
\* never closed.
BracesUnbalanced(text) ==
  \/ \E n \in DOMAIN text : BraceDepth(text, n) < 0
  \/ BraceDepth(text, Len(text)) # 0

\* The index of the first character of text[i..] that is one of chars, or
\* Len(text) + 1.
NextOf(text, i, chars) ==
  CHOOSE j \in i..(Len(text) + 1) :
     /\ (j = Len(text) + 1 \/ text[j] \in chars)
     /\ \A m \in i..(j - 1) : text[m] \notin chars

RECURSIVE OuterBracesBalanced(_, _, _, _)
\* Whether the braces of text[i..] that stand outside string literals close
\* the depth braces open before them and each other.  in_string: index i is
\* inside a string literal, where a backslash takes the next character.
OuterBracesBalanced(text, i, depth, in_string) ==
  LET j == NextOf(text, i, IF in_string THEN {"\"", "\\"} ELSE {"\"", "{", "}"})
  IN  IF j > Len(text) THEN depth = 0
      ELSE CASE text[j] = "\\" -> OuterBracesBalanced(text, j + 2, depth, TRUE)
             [] text[j] = "\"" -> OuterBracesBalanced(text, j + 1, depth, ~in_string)
             [] text[j] = "{" -> OuterBracesBalanced(text, j + 1, depth + 1, FALSE)
             [] text[j] = "}" ->
                  depth > 0 /\ OuterBracesBalanced(text, j + 1, depth - 1, FALSE)

\* The text from the first "{" to the last "}" of a text that has the pair.
BraceSpan(text) ==
  SubSeq(text,
         CHOOSE i \in DOMAIN text : text[i] = "{" /\ \A k \in 1..(i - 1) : text[k] # "{",
         CHOOSE j \in DOMAIN text : text[j] = "}" /\ \A k \in (j + 1)..Len(text) : text[k] # "}")

\* The parser raised CommandParsingError and gave no suggestion.
ParsingFailed ==
  /\ error = "CommandParsingError"
  /\ pc = "suggest_raised"
  /\ parsed = NoSuggestion
  /\ suggestion = NoSuggestion

\* C6: a response with no "{" / "}" pair, or whose braces outside string
\* literals, between the first "{" and the last "}", are unbalanced, makes
\* the parser raise CommandParsingError, and no suggestion is returned.
C6_NoObjectNoSuggestion ==
  ( /\ calls.parse = 1
    /\ \/ NoBracePair(raw_response)
       \/ ~OuterBracesBalanced(BraceSpan(raw_response), 1, 0, FALSE) )
     => ParsingFailed

\* The parser raised on a response that has the pair, and whose span has a
\* brace too many outside its string literals.
C6_Witness ==
  /\ calls.parse = 1
  /\ ~NoBracePair(raw_response)
  /\ ~OuterBracesBalanced(BraceSpan(raw_response), 1, 0, FALSE)
  /\ \E i \in DOMAIN raw_response : raw_response[i] = "\""
  /\ ParsingFailed

\* C6 as stated: a response with no "{" / "}" pair, or whose braces are
\* unbalanced, makes the parser raise.  (It does not when the brace too
\* many stands before the first "{", after the last "}" or in a string.)
C6_AsStated ==
  ( /\ calls.parse = 1
    /\ NoBracePair(raw_response) \/ BracesUnbalanced(raw_response) )
     => ParsingFailed

\* The confirmation prompt was shown, and this is the line it read.
ConfirmAsked == calls.confirm = 1

ConfirmLine == reads[Len(reads)].line

\* The line is "y" or "yes" in any case, with any whitespace around it.
SaysYes(line) ==
  /\ ~line.eof
  /\ \E i, j \in 1..Len(line.text) :
        /\ \A k \in 1..(i - 1) : IsSpace(line.text[k])
        /\ \A k \in (j + 1)..Len(line.text) : IsSpace(line.text[k])
        /\ [k \in 1..(j - i + 1) |-> LowerChar(line.text[i + k - 1])]
              \in { <<"y">>, <<"y","e","s">> }

\* C2: the runner is invoked only if --no-exec is not set and --accept is
\* set, or the suggestion needs no confirmation, or the user answered "y"
\* or "yes" to the prompt; when the suggestion requires confirmation and
\* --accept is not given, a run that gets past the confirmation has shown
\* the prompt, before any execution, and any other answer, end of input
\* included, ends the run with "Aborted.", exit code 0 and no execution.
C2_ExecutionNeedsConsent ==
  /\ (calls.execute >= 1 \/ pc = "execute")
        => /\ ~args.no_exec
           /\ \/ args.accept
              \/ ~suggestion.requires_confirmation
              \/ ConfirmAsked /\ SaysYes(ConfirmLine)
  /\ ( /\ pc \in {"execute", "report", "returned", "raised"}
       /\ calls.parse = 1 /\ error \in {"", "OSError"}
       /\ suggestion.command # << >>
       /\ ~args.no_exec
       /\ suggestion.requires_confirmation /\ ~args.accept )
        => /\ ConfirmAsked
           /\ reads[Len(reads)].prompt = "Execute command? [y/N]: "
           /\ ~SaysYes(ConfirmLine)
                 => /\ pc = "returned"
                    /\ exit_code = 0
                    /\ stdout[Len(stdout)] = Printed("Aborted.", << >>)
                    /\ calls.execute = 0 /\ calls.spawn = 0
  /\ calls.confirm = 0 => (\A i \in DOMAIN reads : reads[i].prompt # "Execute command? [y/N]: ")

\* The user answered " YES " to the prompt for a command the gate flagged,
\* and the command was run.
C2_Witness ==
  /\ calls.execute = 1
  /\ ~args.accept
  /\ suggestion.requires_confirmation /\ ~parsed.requires_confirmation
  /\ ConfirmAsked
  /\ ConfirmLine = InputLine(<<" ","Y","E","S"," ">>)
  /\ calls.spawn = 1

\* main returned.
MainReturned == pc = "returned"

\* The outcomes of a run of main that returned.
NoInstruction == instruction = << >>

TemplateMissing == instruction # << >> /\ prompt_template = ""

KeyMissing == prompt_template # "" /\ api_key = << >>

ParseFailed == error = "CommandParsingError"

ModelRequestFailed == error # "" /\ calls.request = 1 /\ calls.parse = 0

RenderFailed == error # "" /\ calls.render = 1 /\ calls.complete = 0

FollowUpReturned == ParserReturned /\ suggestion.command = << >> /\ suggestion.follow_up # << >>

CommandNotRun == ParserReturned /\ suggestion.command # << >> /\ args.no_exec

Aborted == ParserReturned /\ ConfirmAsked /\ ~should_execute

\* C3: the exit code main returns is 1 when no instruction is provided,
\* when a prompt template other than the default one is missing or when
\* the API key is missing; 2 when parsing the model response fails; 3 when
\* suggest raises anything else (the model request fails, or the prompt
\* does not render); 10 when a follow-up question is returned; 0 with
\* --no-exec and when the user aborts; and else the return code of the
\* runner's result: the exit status of the command, or 0 under --dry-run,
\* where no command is executed.
C3_ExitCode ==
  MainReturned =>
    CASE NoInstruction \/ TemplateMissing \/ KeyMissing -> exit_code = 1
      [] ParseFailed -> exit_code = 2
      [] ModelRequestFailed \/ RenderFailed -> exit_code = 3
      [] FollowUpReturned -> exit_code = 10
      [] CommandNotRun \/ Aborted -> exit_code = 0
      [] OTHER -> /\ calls.execute = 1
                  /\ exit_code = result.returncode
                  /\ IF args.dry_run
                     THEN calls.spawn = 0 /\ exit_code = 0
                     ELSE /\ calls.spawn = 1
                          /\ executed.proc.kind = "exited"
                          /\ exit_code = executed.proc.returncode

\* main returned 3 for a template that did not render, without any
\* request to the model.
C3_Witness ==
  /\ MainReturned
  /\ RenderFailed
  /\ calls.request = 0
  /\ exit_code = 3

\* C3 as stated: 1 when no instruction is provided or the API key is
\* missing, 2 when parsing fails, 3 when the model request fails, 10 for a
\* follow-up, 0 with --no-exec or when the user aborts, and in every other
\* case the exit status of the executed command.
C3_AsStated ==
  MainReturned =>
    CASE NoInstruction \/ KeyMissing -> exit_code = 1
      [] ParseFailed -> exit_code = 2
      [] ModelRequestFailed -> exit_code = 3
      [] FollowUpReturned -> exit_code = 10
      [] CommandNotRun \/ Aborted -> exit_code = 0
      [] OTHER -> /\ calls.spawn = 1
                  /\ executed.proc.kind = "exited"
                  /\ exit_code = executed.proc.returncode

\* C4: the model client is called only after an instruction, a prompt
\* template and an API key have been obtained; a run without an
\* instruction, without an API key, or whose template is missing and is not
\* the default-named one returns 1 without any model call; a missing
\* default-named template is replaced by the embedded one, and the run goes
\* on (to exit code 0 with --no-exec and a command suggested).
C4_NoModelCallBeforeConfiguration ==
  /\ (calls.complete >= 1 \/ calls.request >= 1 \/ pc = "complete")
        => instruction # << >> /\ prompt_template # "" /\ api_key # << >>
  /\ (MainReturned /\ (NoInstruction \/ TemplateMissing \/ KeyMissing))
        => exit_code = 1 /\ calls.complete = 0 /\ calls.request = 0 /\ calls.render = 0
  /\ (MainReturned /\ TemplateMissing) => args.prompt # DEFAULT_PROMPT
  /\ (instruction # << >> /\ pc \notin {"instruction", "load_prompt"}
        /\ args.prompt = DEFAULT_PROMPT)
        => prompt_template # ""
  /\ prompt_template = "embedded" => args.prompt = DEFAULT_PROMPT
  /\ (MainReturned /\ prompt_template = "embedded" /\ CommandNotRun)
        => exit_code = 0 /\ calls.request = 1

\* The default-named template was missing, the embedded one was used, the
\* model was asked and main returned 0 with --no-exec.
C4_Witness ==
  /\ MainReturned
  /\ prompt_template = "embedded"
  /\ args.no_exec
  /\ calls.request = 1
  /\ suggestion.command = <<"l","s">>
  /\ stdout[1] = Printed("Command: ", <<"l","s">>)
  /\ exit_code = 0

\* stdout holds a line "Follow-up needed: ...".
FollowUpPrinted == \E i \in DOMAIN stdout : stdout[i].tag = "Follow-up needed: "

\* C7: once suggest has returned and main has gone on, the follow-up was
\* printed exactly when the suggestion has a non-empty follow_up and an
\* empty command; main then printed "Follow-up needed: <follow_up>" and
\* nothing else, returned 10, and neither asked for confirmation nor
\* called the runner, whatever the flags; with a non-empty command the
\* command is printed instead, follow_up or not.
C7_FollowUpPath ==
  /\ (ParserReturned /\ pc \notin {"enforce", "suggested"})
        => IF suggestion.follow_up # << >> /\ suggestion.command = << >>
           THEN /\ stdout = << Printed("Follow-up needed: ", suggestion.follow_up) >>
                /\ MainReturned /\ exit_code = 10
                /\ calls.confirm = 0 /\ calls.execute = 0 /\ calls.spawn = 0
                /\ reads = << >> \/ (Len(reads) = 1 /\ reads[1].prompt = "Describe the task> ")
           ELSE /\ ~FollowUpPrinted
                /\ suggestion.command # << >>
                /\ stdout[1] = Printed("Command: ", suggestion.command)
  /\ FollowUpPrinted => ParserReturned

\* The follow-up path was taken with --accept and --dry-run, and without
\* --no-exec.
C7_Witness ==
  /\ MainReturned
  /\ FollowUpPrinted
  /\ args.accept /\ args.dry_run /\ ~args.no_exec
  /\ suggestion.follow_up = T_which_directory
  /\ exit_code = 10

\* The client failed: complete raised.
ClientFailed == calls.complete >= 1 /\ (reply.kind # "body" \/ reply.shape # "good")

\* C10: no step of suggest is taken twice, and each is taken after the one
\* before it; when the client fails neither the parser nor the gate runs;
\* when the parser fails the gate does not run; once suggest has returned,
\* the gate ran exactly when the parsed command is non-empty and
\* allow_destructive is false; and a run of main makes at most one model
\* call and at most one execution.
C10_SinglePass ==
  /\ \A step \in {"render", "complete", "request", "parse", "gate", "execute", "spawn"} :
        calls[step] <= 1
  /\ calls.gate <= calls.parse
  /\ calls.parse <= calls.complete
  /\ calls.complete <= calls.render
  /\ calls.request <= calls.complete
  /\ ClientFailed => calls.parse = 0 /\ calls.gate = 0 /\ error # "" /\ pc \in {"suggest_raised", "returned"}
  /\ ParseFailed => calls.gate = 0 /\ pc \in {"suggest_raised", "returned"}
  /\ (ParserReturned /\ pc # "enforce")
        => calls.gate = IF parsed.command # << >> /\ ~request.allow_destructive THEN 1 ELSE 0

\* The client failed on a transport error and main returned after one
\* call, with no parsing.
C10_Witness ==
  /\ MainReturned
  /\ reply.kind = "URLError"
  /\ calls.complete = 1 /\ calls.request = 1
  /\ calls.parse = 0
  /\ exit_code = 3

\* execute was called, and returned or raised.
ExecuteDone == pc \in {"runner_returned", "runner_raised"}

\* C8: with dry_run, execute returns, for every command and directory, a
\* result with return code 0, empty stdout, empty stderr and the command,
\* and subprocess.run is not called; without dry_run the result carries the
\* exit status and the output of the process as they are, and a non-zero
\* exit status is returned like any other, never raised.
C8_DryRunAndExitStatus ==
  ExecuteDone =>
    /\ calls.execute = 1
    /\ IF runner.dry_run
       THEN /\ pc = "runner_returned"
            /\ error = ""
            /\ result = [command |-> executed.command, returncode |-> 0,
                         stdout |-> << >>, stderr |-> << >>]
            /\ calls.spawn = 0
            /\ executed.proc = NoProcess
       ELSE /\ calls.spawn = 1
            /\ executed.proc.kind = "exited"
                  => /\ pc = "runner_returned"
                     /\ error = ""
                     /\ result = [command |-> executed.command,
                                  returncode |-> executed.proc.returncode,
                                  stdout |-> executed.proc.stdout,
                                  stderr |-> executed.proc.stderr]

\* execute returned the exit status 127 of a process, with its output.
C8_Witness ==
  /\ pc = "runner_returned"
  /\ ~runner.dry_run
  /\ executed.proc.kind = "exited"
  /\ executed.proc.returncode = 127
  /\ result.returncode = 127
  /\ result.stderr # << >>

\* complete was called, and returned or raised.
CompleteDone == pc \in {"client_returned", "client_raised"}

\* trimmed is text without the whitespace at its two ends.
IsTrimOf(trimmed, text) ==
  /\ trimmed = << >> \/ (~IsSpace(trimmed[1]) /\ ~IsSpace(trimmed[Len(trimmed)]))
  /\ \E i \in 0..Len(text) :
        /\ i + Len(trimmed) <= Len(text)
        /\ \A k \in 1..i : IsSpace(text[k])
        /\ \A k \in 1..Len(trimmed) : text[i + k] = trimmed[k]
        /\ \A k \in (i + Len(trimmed) + 1)..Len(text) : IsSpace(text[k])

\* C9: a call of complete sends one request, and either returns the text
\* of choices[0].message.content without the whitespace at its ends, or
\* raises: RuntimeError when the transport fails (HTTP error status,
\* connection error), and some error whenever the body is no JSON, lacks
\* the expected fields, or carries a content that is not text; when it
\* raises it returns nothing.
C9_CompleteReturnsContentOrRaises ==
  CompleteDone =>
    /\ calls.request = 1 /\ calls.complete = 1
    /\ (reply.kind = "body" /\ reply.shape = "good")
          => /\ pc = "client_returned"
             /\ error = ""
             /\ IsTrimOf(raw_response, reply.content)
    /\ reply.kind \in {"HTTPError", "URLError"}
          => pc = "client_raised" /\ error = "RuntimeError"
    /\ (reply.kind # "body" \/ reply.shape # "good")
          => pc = "client_raised" /\ error # ""
    /\ (reply.kind = "body" /\ reply.shape \in {"missing", "not_text"})
          => error = "RuntimeError"
    /\ pc = "client_raised" => raw_response = << >>
    /\ pc = "client_returned" => reply.kind = "body" /\ reply.shape = "good"

\* complete raised on a body whose content is not a str.
C9_Witness ==
  /\ pc = "client_raised"
  /\ reply.shape = "not_text"
  /\ Find(reply.body, "l") # 0
  /\ error = "RuntimeError"
  /\ calls.request = 1

\* The command field of the object in the model's response.
CommandField == DictGet(ExtractJsonObject(raw_response).val, K_command, JStr(<< >>))

\* C11: the gate changes at most requires_confirmation: command,
\* explanation and follow_up of the suggestion stay the parsed ones; and
\* when main calls the runner, the command it passes is the suggestion's
\* command, the one printed after "Command: ", which is the command field
\* of the model's object without the whitespace at its ends (when the
\* field is a string); the result carries the same command.
C11_CommandTextUnchanged ==
  /\ suggestion.command = parsed.command
  /\ suggestion.explanation = parsed.explanation
  /\ suggestion.follow_up = parsed.follow_up
  /\ calls.execute >= 1
        => /\ executed.command = parsed.command
           /\ executed.command = suggestion.command
           /\ stdout[1] = Printed("Command: ", executed.command)
           /\ \A i \in DOMAIN stdout :
                 stdout[i].tag = "Command: " => stdout[i].text = executed.command
           /\ CommandField.k = "str" => IsTrimOf(executed.command, CommandField.s)
           /\ pc \in {"report", "returned"} => result.command = executed.command

\* The model wrote " rm -rf /tmp/x\n" with a false flag; the gate forced
\* the flag, and the command was printed and run without the whitespace.
C11_Witness ==
  /\ calls.execute = 1 /\ calls.spawn = 1
  /\ calls.gate = 1
  /\ suggestion.requires_confirmation /\ ~parsed.requires_confirmation
  /\ CommandField = JStr(<<" ">> \o T_rm_rf_tmp \o <<"\n">>)
  /\ executed.command = T_rm_rf_tmp
  /\ stdout[1] = Printed("Command: ", T_rm_rf_tmp)

=============================================================================
